---------------------------- MODULE Spec2Model ----------------------------
(***************************************************************************)
(* Desktop Organizer (src/desktop_organizer.py).                           *)
(*                                                                         *)
(* File names, extensions and category labels are sequences of one-        *)
(* character strings, so that lower-casing, suffix splitting, the          *)
(* "stem(k)ext" numbering and the sort of the summary are computed the way *)
(* the Python code computes them on str values.                            *)
(***************************************************************************)
EXTENDS Integers, Sequences, FiniteSets, TLC

(***************************************************************************)
(* Bounds of the model.                                                    *)
(***************************************************************************)
MaxRootFiles == 3
MaxRuns == 2
MaxRemovals == 1
MaxCollisions == 5
MaxContiguous == 11

(***************************************************************************)
(* Characters: the printable ASCII range, in code point order (32..126).   *)
(* The double quote (34), the backslash (92) and the backtick (96) are     *)
(* written by name.                                                        *)
(***************************************************************************)
AsciiChars ==
    <<
       " ", "!", "QUOTE", "#", "$", "%", "&", "'", "(", ")", "*", "+", ",", "-", ".", "/",
       "0", "1", "2", "3", "4", "5", "6", "7", "8", "9", ":", ";", "<", "=", ">", "?",
       "@", "A", "B", "C", "D", "E", "F", "G", "H", "I", "J", "K", "L", "M", "N", "O",
       "P", "Q", "R", "S", "T", "U", "V", "W", "X", "Y", "Z", "[", "BACKSLASH", "]", "^", "_",
       "BACKTICK", "a", "b", "c", "d", "e", "f", "g", "h", "i", "j", "k", "l", "m", "n", "o",
       "p", "q", "r", "s", "t", "u", "v", "w", "x", "y", "z", "{", "|", "}", "~"
    >>

Range(s) == { s[i] : i \in DOMAIN s }

\* ord(c)
CodePoints ==
    [ c \in Range(AsciiChars) |->
        31 + (CHOOSE i \in DOMAIN AsciiChars : AsciiChars[i] = c) ]

CodePoint(c) == CodePoints[c]

\* chr(n)
Chr(n) == AsciiChars[n - 31]

\* str.lower() on one character: "A".."Z" (65..90) map to "a".."z".
LowerChar(c) ==
    IF CodePoint(c) >= 65 /\ CodePoint(c) <= 90 THEN Chr(CodePoint(c) + 32) ELSE c

\* str.lower()
Lower(s) == [ i \in DOMAIN s |-> LowerChar(s[i]) ]

\* str.upper() on one character, used to build mixed-case inputs only.
UpperChar(c) ==
    IF CodePoint(c) >= 97 /\ CodePoint(c) <= 122 THEN Chr(CodePoint(c) - 32) ELSE c

Upper(s) == [ i \in DOMAIN s |-> UpperChar(s[i]) ]

\* str(counter): decimal digits of a non-negative integer.
RECURSIVE Str(_)
Str(n) ==
    IF n < 10 THEN << Chr(48 + n) >>
    ELSE Str(n \div 10) \o << Chr(48 + (n % 10)) >>

\* str comparison s < t: lexicographic by code point.
RECURSIVE StrLess(_, _)
StrLess(s, t) ==
    IF t = << >> THEN FALSE
    ELSE IF s = << >> THEN TRUE
    ELSE IF CodePoint(Head(s)) # CodePoint(Head(t))
         THEN CodePoint(Head(s)) < CodePoint(Head(t))
    ELSE StrLess(Tail(s), Tail(t))

(***************************************************************************)
(* pathlib: PurePath.suffix and PurePath.stem of a final path component.   *)
(* i = name.rfind(dot); the suffix is name[i:] when 0 < i < len(name) - 1  *)
(* (0-based), else empty. With 1-based positions: 1 < p < Len(name).         *)
(***************************************************************************)
RFindDot(name) ==
    IF \E i \in DOMAIN name : name[i] = "."
    THEN CHOOSE i \in DOMAIN name :
             /\ name[i] = "."
             /\ \A j \in DOMAIN name : name[j] = "." => j <= i
    ELSE 0

Suffix(name) ==
    LET p == RFindDot(name)
    IN  IF p > 1 /\ p < Len(name) THEN SubSeq(name, p, Len(name)) ELSE << >>

Stem(name) ==
    LET p == RFindDot(name)
    IN  IF p > 1 /\ p < Len(name) THEN SubSeq(name, 1, p - 1) ELSE name

\* str.startswith(dot)
StartsWithDot(name) == Len(name) > 0 /\ name[1] = "."

(***************************************************************************)
(* Configuration tables.                                                   *)
(***************************************************************************)
Images == <<"I","m","a","g","e","s">>
PDFs == <<"P","D","F","s">>
Documents == <<"D","o","c","u","m","e","n","t","s">>
Videos == <<"V","i","d","e","o","s">>
Music == <<"M","u","s","i","c">>
Archives == <<"A","r","c","h","i","v","e","s">>
Others == <<"O","t","h","e","r","s">>

\* The dict literal, in insertion order (the order dict.items() iterates).
FILE_CATEGORIES ==
    <<
       [category |-> Images,
        extensions |-> <<<<".","j","p","g">>,
                        <<".","j","p","e","g">>,
                        <<".","p","n","g">>,
                        <<".","g","i","f">>,
                        <<".","b","m","p">>,
                        <<".","s","v","g">>,
                        <<".","i","c","o">>,
                        <<".","t","i","f","f">>,
                        <<".","w","e","b","p">>,
                        <<".","h","e","i","c">>>>],
       [category |-> PDFs,
        extensions |-> <<<<".","p","d","f">>>>],
       [category |-> Documents,
        extensions |-> <<<<".","d","o","c">>,
                        <<".","d","o","c","x">>,
                        <<".","t","x","t">>,
                        <<".","r","t","f">>,
                        <<".","o","d","t">>,
                        <<".","p","a","g","e","s">>,
                        <<".","t","e","x">>,
                        <<".","m","d">>,
                        <<".","c","s","v">>,
                        <<".","x","l","s","x">>,
                        <<".","x","l","s">>,
                        <<".","p","p","t">>,
                        <<".","p","p","t","x">>>>],
       [category |-> Videos,
        extensions |-> <<<<".","m","p","4">>,
                        <<".","a","v","i">>,
                        <<".","m","o","v">>,
                        <<".","m","k","v">>,
                        <<".","f","l","v">>,
                        <<".","w","m","v">>,
                        <<".","w","e","b","m">>,
                        <<".","m","4","v">>>>],
       [category |-> Music,
        extensions |-> <<<<".","m","p","3">>,
                        <<".","w","a","v">>,
                        <<".","f","l","a","c">>,
                        <<".","a","a","c">>,
                        <<".","o","g","g">>,
                        <<".","w","m","a">>,
                        <<".","m","4","a">>>>],
       [category |-> Archives,
        extensions |-> <<<<".","z","i","p">>,
                        <<".","t","a","r">>,
                        <<".","g","z">>,
                        <<".","r","a","r">>,
                        <<".","7","z">>,
                        <<".","b","z","2">>,
                        <<".","x","z">>>>],
       [category |-> Others,
        extensions |-> << >>]
    >>

DS_Store == <<".","D","S","_","S","t","o","r","e">>
Localized == <<".","l","o","c","a","l","i","z","e","d">>
DesktopIni == <<"d","e","s","k","t","o","p",".","i","n","i">>

IGNORED_FILES == { DS_Store, Localized, DesktopIni }

(***************************************************************************)
(* get_category: lower-case the extension, then return the first category  *)
(* (in iteration order) whose list contains it, else Others.               *)
(***************************************************************************)
RECURSIVE CategoryFrom(_, _)
CategoryFrom(file_extension, k) ==
    IF k > Len(FILE_CATEGORIES) THEN Others
    ELSE IF file_extension \in Range(FILE_CATEGORIES[k].extensions)
         THEN FILE_CATEGORIES[k].category
    ELSE CategoryFrom(file_extension, k + 1)

\* The lookup without the lower-casing.
get_category_keep_case(file_extension) == CategoryFrom(file_extension, 1)

get_category(file_extension) == CategoryFrom(Lower(file_extension), 1)

(***************************************************************************)
(* get_unique_filename.  existing is the set of names for which            *)
(* (target_dir / name).exists() holds at the time of the call.             *)
(***************************************************************************)
\* f"{name_stem}({counter}){extension}"
NumberedName(name_stem, counter, extension) ==
    name_stem \o <<"(">> \o Str(counter) \o <<")">> \o extension

\* The while True loop, entered with the given counter.
RECURSIVE UniqueFrom(_, _, _, _)
UniqueFrom(existing, name_stem, extension, counter) ==
    IF NumberedName(name_stem, counter, extension) \notin existing
    THEN NumberedName(name_stem, counter, extension)
    ELSE UniqueFrom(existing, name_stem, extension, counter + 1)

\* The numbering with counter = 0 to begin with.
get_unique_filename_from_zero(existing, name) ==
    IF name \notin existing THEN name
    ELSE UniqueFrom(existing, Stem(name), Suffix(name), 0)

get_unique_filename(existing, name) ==
    IF name \notin existing THEN name
    ELSE UniqueFrom(existing, Stem(name), Suffix(name), 1)


(***************************************************************************)
(* State.                                                                  *)
(*                                                                         *)
(* desktop_exists, desktop : the file system under Path.home()/Desktop.    *)
(*     desktop maps each name in the directory to a node: a regular file   *)
(*     with its content, or a directory with its children (name -> content)*)
(* pc          : position of organize_desktop()                            *)
(* items       : the snapshot list(desktop_path.iterdir()).  The order of  *)
(*     iterdir() is arbitrary, so the list is kept as the set of its       *)
(*     entries and each iteration of the for loop visits any entry not yet *)
(*     visited                                                             *)
(* entry_state : per snapshot entry, PENDING until the loop body is done   *)
(*     with it, then SKIPPED (a continue), SUCCESS or FAILED (the try)     *)
(* item        : the loop variable once it has passed the three filters    *)
(* move_count  : the defaultdict(int), as a function on its keys           *)
(* notices     : the per-file lines printed so far ("Moved:", "Error       *)
(*     moving"); each names its file, and they are kept as a set           *)
(* summary     : the lines of the SUMMARY block, in order, once printed    *)
(* run, run_start : number of the current invocation, and the file system  *)
(*     as it was when the invocation took its snapshot                     *)
(* removed     : the entries another process has removed during the run    *)
(* file_extension, classified : argument and result of get_category        *)
(* target_dir, filename, resolved : arguments and result of                *)
(*     get_unique_filename                                                 *)
(***************************************************************************)
VARIABLES desktop_exists, desktop, pc, items, entry_state, item, move_count,
          notices, summary, run, run_start, removed,
          file_extension, classified, target_dir, filename, resolved

organizer_vars == << desktop_exists, desktop, pc, items, entry_state, item,
                     move_count, notices, summary, run, run_start, removed >>
classifier_vars == << file_extension, classified >>
resolver_vars == << target_dir, filename, resolved >>
vars == << desktop_exists, desktop, pc, items, entry_state, item, move_count,
           notices, summary, run, run_start, removed,
           file_extension, classified, target_dir, filename, resolved >>

NoName == << >>
NoEntries == [ n \in {} |-> n ]

(***************************************************************************)
(* File system nodes and the operations the program uses on them.          *)
(***************************************************************************)
FileNode(content) == [kind |-> "file", content |-> content, children |-> NoEntries]
DirNode(children) == [kind |-> "dir", content |-> NoName, children |-> children]

\* Content of a file, named after the place it was first seen at.
ContentOf(folder, name) == << folder, name >>

\* Path.exists() of desktop / name
Exists(fs, name) == name \in DOMAIN fs

\* "not a directory" in place of is_file(): True for a path that is gone.
IsNotDir(fs, name) == ~(name \in DOMAIN fs /\ fs[name].kind = "dir")

\* Path.is_file(): False for a directory and for a path that does not exist.
IsFile(fs, name) == name \in DOMAIN fs /\ fs[name].kind = "file"

\* Path.is_dir()
IsDir(fs, name) == name \in DOMAIN fs /\ fs[name].kind = "dir"

\* Path.mkdir(exist_ok=True) raises FileExistsError unless the existing path
\* is a directory.
MkdirRaises(fs, name) == Exists(fs, name) /\ ~IsDir(fs, name)

\* The file system after a mkdir(exist_ok=True) that did not raise.
Mkdir(fs, name) ==
    IF Exists(fs, name) THEN fs ELSE fs @@ (name :> DirNode(NoEntries))

\* The names for which (category_folder / name).exists() holds.
Listing(fs, folder) == DOMAIN fs[folder].children

\* A copy that leaves the source in place.
MoveKeepingSource(fs, name, folder, new_name) ==
    [ n \in DOMAIN fs |->
        IF n = folder
        THEN DirNode((new_name :> fs[name].content) @@ fs[folder].children)
        ELSE fs[n] ]

\* A move under the original name, whatever the destination holds.
MoveOverwriting(fs, name, folder, new_name) ==
    [ n \in DOMAIN fs \ {name} |->
        IF n = folder
        THEN DirNode((name :> fs[name].content) @@ fs[folder].children)
        ELSE fs[n] ]

\* shutil.move(desktop / name, desktop / folder / new_name) when it succeeds:
\* one rename within the file system.
Move(fs, name, folder, new_name) ==
    [ n \in DOMAIN fs \ {name} |->
        IF n = folder
        THEN DirNode((new_name :> fs[name].content) @@ fs[folder].children)
        ELSE fs[n] ]

\* An entry removed by another process.
Unlink(fs, name) == [ n \in DOMAIN fs \ {name} |-> fs[n] ]

(***************************************************************************)
(* sorted(move_count.keys()): ascending by str comparison.                 *)
(***************************************************************************)
MinKey(S) == CHOOSE k \in S : \A other \in S \ {k} : StrLess(k, other)

RECURSIVE Sorted(_)
Sorted(S) ==
    IF S = {} THEN << >>
    ELSE << MinKey(S) >> \o Sorted(S \ {MinKey(S)})

\* The keys in descending order, as an unsorted dict could yield them.
RECURSIVE AnyOrder(_)
AnyOrder(S) ==
    IF S = {} THEN << >>
    ELSE << CHOOSE k \in S : \A other \in S \ {k} : StrLess(other, k) >>
         \o AnyOrder(S \ {CHOOSE k \in S : \A other \in S \ {k} : StrLess(other, k)})

\* sum(move_count.values())
RECURSIVE SumValues(_, _)
SumValues(counts, keys) ==
    IF keys = {} THEN 0
    ELSE counts[MinKey(keys)] + SumValues(counts, keys \ {MinKey(keys)})

\* The lines of the SUMMARY block.
CountLine(counts, cat) ==
    [kind |-> "count", category |-> cat, count |-> counts[cat],
     plural |-> (counts[cat] # 1)]

\* The SUMMARY block without sorted().
SummaryLinesUnsorted(counts) ==
    IF SumValues(counts, DOMAIN counts) = 0
    THEN << [kind |-> "nothing"] >>
    ELSE [ i \in 1..Cardinality(DOMAIN counts) |->
             CountLine(counts, AnyOrder(DOMAIN counts)[i]) ]
         \o << [kind |-> "total", count |-> SumValues(counts, DOMAIN counts)] >>

SummaryLines(counts) ==
    IF SumValues(counts, DOMAIN counts) = 0
    THEN << [kind |-> "nothing"] >>
    ELSE [ i \in 1..Cardinality(DOMAIN counts) |->
             CountLine(counts, Sorted(DOMAIN counts)[i]) ]
         \o << [kind |-> "total", count |-> SumValues(counts, DOMAIN counts)] >>

\* move_count[category] = 1 in place of += 1.
IncrementKeepingOne(counts, cat) ==
    IF cat \in DOMAIN counts THEN counts ELSE counts @@ (cat :> 1)

\* move_count[category] += 1 on a defaultdict(int)
Increment(counts, cat) ==
    IF cat \in DOMAIN counts
    THEN [counts EXCEPT ![cat] = @ + 1]
    ELSE counts @@ (cat :> 1)


(***************************************************************************)
(* Initial contents of the Desktop: at most MaxRootFiles regular files     *)
(* taken from RootFilePool, next to one of the InitialFolders.             *)
(***************************************************************************)
A_jpg == <<"a",".","j","p","g">>
A1_jpg == <<"a","(","1",")",".","j","p","g">>
B_PNG == <<"b",".","P","N","G">>
R_xyz == <<"r",".","x","y","z">>
Hidden == <<".","h">>
Stuff == <<"s","t","u","f","f">>

RootFilePool ==
    { A_jpg, A1_jpg, B_PNG, R_xyz, Others, Images, DesktopIni, Hidden }

FolderWith(folder, names) ==
    folder :> DirNode([ n \in names |-> ContentOf(folder, n) ])

InitialFolders ==
    { NoEntries,
      FolderWith(Images, {A_jpg}),
      FolderWith(Images, {A_jpg, A1_jpg}),
      FolderWith(Stuff, {}) @@ FolderWith(Others, {R_xyz}) }

DesktopWith(files, folders) ==
    [ n \in files \cup DOMAIN folders |->
        IF n \in files THEN FileNode(ContentOf(NoName, n)) ELSE folders[n] ]

IdleOrganizer ==
    /\ desktop_exists = FALSE
    /\ desktop = NoEntries
    /\ pc = "idle"
    /\ items = {}
    /\ entry_state = NoEntries
    /\ item = NoName
    /\ move_count = NoEntries
    /\ notices = {}
    /\ summary = << >>
    /\ run = 0
    /\ run_start = NoEntries
    /\ removed = NoEntries

IdleClassifier == file_extension = NoName /\ classified = NoName

IdleResolver == target_dir = {} /\ filename = NoName /\ resolved = NoName

Init ==
    /\ \/ /\ desktop_exists = TRUE
          /\ \E files \in SUBSET RootFilePool, folders \in InitialFolders :
                /\ Cardinality(files) <= MaxRootFiles
                /\ files \cap DOMAIN folders = {}
                /\ desktop = DesktopWith(files, folders)
       \/ /\ desktop_exists = FALSE
          /\ desktop = NoEntries
    /\ pc = "start"
    /\ items = {}
    /\ entry_state = NoEntries
    /\ item = NoName
    /\ move_count = NoEntries
    /\ notices = {}
    /\ summary = << >>
    /\ run = 1
    /\ run_start = desktop
    /\ removed = NoEntries
    /\ IdleClassifier
    /\ IdleResolver

(***************************************************************************)
(* organize_desktop()                                                      *)
(*                                                                         *)
(* The loop body is two steps, so that another process can act between     *)
(* the is_file check and the move: Filter (the three continue tests) and   *)
(* Relocate (get_category, mkdir, get_unique_filename, shutil.move).       *)
(* Relocate has three outcomes: mkdir raises and nothing catches it, the   *)
(* move succeeds, or the move raises and except Exception takes over.      *)
(* Whether a move of an existing source raises is up to the operating      *)
(* system (permissions, a file held open, an I/O error), so both outcomes  *)
(* are possible for every file; a move of a missing source always raises.  *)
(* A successful shutil.move is the single rename it performs inside one    *)
(* file system.                                                            *)
(***************************************************************************)
Pending == { n \in items : entry_state[n] = "PENDING" }

\* The filters without the is_file check.
SkippedByFilterNoFileCheck(fs, name) ==
    \/ name \in IGNORED_FILES
    \/ StartsWithDot(name)

\* The filters without the ignore set.
SkippedByFilterDotOnly(fs, name) ==
    \/ ~IsFile(fs, name)
    \/ StartsWithDot(name)

\* The three filters at the top of the loop body.
SkippedByFilter(fs, name) ==
    \/ ~IsFile(fs, name)
    \/ name \in IGNORED_FILES
    \/ StartsWithDot(name)

\* Where the loop goes once the entries in done are dealt with.
AfterEntry(states) ==
    IF \E n \in DOMAIN states : states[n] = "PENDING" THEN "loop" ELSE "summarize"

\* desktop_path.exists(), the early return, and the snapshot.
Enumerate ==
    /\ pc = "start"
    /\ IF ~desktop_exists
       THEN /\ pc' = "error"
            /\ UNCHANGED << items, entry_state, run_start >>
       ELSE /\ items' = DOMAIN desktop
            /\ entry_state' = [ n \in DOMAIN desktop |-> "PENDING" ]
            /\ run_start' = desktop
            /\ pc' = AfterEntry([ n \in DOMAIN desktop |-> "PENDING" ])
    /\ UNCHANGED << desktop_exists, desktop, item, move_count, notices, summary,
                    run, removed >>
    /\ UNCHANGED << classifier_vars, resolver_vars >>

\* One iteration of the for loop up to the third continue.
Filter(name) ==
    /\ pc = "loop"
    /\ name \in Pending
    /\ IF SkippedByFilter(desktop, name)
       THEN /\ entry_state' = [entry_state EXCEPT ![name] = "SKIPPED"]
            /\ pc' = AfterEntry([entry_state EXCEPT ![name] = "SKIPPED"])
            /\ item' = NoName
       ELSE /\ pc' = "relocate"
            /\ item' = name
            /\ UNCHANGED entry_state
    /\ UNCHANGED << desktop_exists, desktop, items, move_count, notices,
                    summary, run, run_start, removed >>
    /\ UNCHANGED << classifier_vars, resolver_vars >>

\* The rest of the loop body: get_category, mkdir, get_unique_filename and
\* the try around shutil.move.
category == get_category(Suffix(item))

unique_filename ==
    get_unique_filename(Listing(Mkdir(desktop, category), category), item)

\* category_folder.mkdir(exist_ok=True) raises: nothing catches it.
RelocateMkdirRaises ==
    /\ pc = "relocate"
    /\ MkdirRaises(desktop, category)
    /\ pc' = "aborted"
    /\ UNCHANGED << desktop_exists, desktop, items, entry_state, item,
                    move_count, notices, summary, run, run_start, removed >>
    /\ UNCHANGED << classifier_vars, resolver_vars >>

\* shutil.move returns.
RelocateMoved ==
    /\ pc = "relocate"
    /\ LET cat == category
           new_name == unique_filename
       IN  /\ ~MkdirRaises(desktop, cat)
           /\ Exists(desktop, item)
           /\ desktop' = Move(Mkdir(desktop, cat), item, cat, new_name)
           /\ move_count' = Increment(move_count, cat)
           /\ notices' = notices \cup
                  { [kind |-> "moved", name |-> item, category |-> cat,
                     unique_filename |-> new_name] }
    /\ entry_state' = [entry_state EXCEPT ![item] = "SUCCESS"]
    /\ pc' = AfterEntry([entry_state EXCEPT ![item] = "SUCCESS"])
    /\ item' = NoName
    /\ UNCHANGED << desktop_exists, items, summary, run, run_start, removed >>
    /\ UNCHANGED << classifier_vars, resolver_vars >>

\* shutil.move raises (the source is gone, or the operating system refuses
\* the rename): except Exception prints the error and the loop goes on.
RelocateMoveRaises ==
    /\ pc = "relocate"
    /\ LET cat == category
       IN  /\ ~MkdirRaises(desktop, cat)
           /\ desktop' = Mkdir(desktop, cat)
    /\ notices' = notices \cup
           { [kind |-> "error", name |-> item,
              reason |-> IF Exists(desktop, item) THEN "OSError"
                         ELSE "FileNotFoundError"] }
    /\ entry_state' = [entry_state EXCEPT ![item] = "FAILED"]
    /\ pc' = AfterEntry([entry_state EXCEPT ![item] = "FAILED"])
    /\ item' = NoName
    /\ UNCHANGED << desktop_exists, items, move_count, summary, run, run_start,
                    removed >>
    /\ UNCHANGED << classifier_vars, resolver_vars >>

\* The SUMMARY block after the loop.
Summarize ==
    /\ pc = "summarize"
    /\ summary' = SummaryLines(move_count)
    /\ pc' = "done"
    /\ UNCHANGED << desktop_exists, desktop, items, entry_state, item,
                    move_count, notices, run, run_start, removed >>
    /\ UNCHANGED << classifier_vars, resolver_vars >>

\* The script is started again after it has run to its end.
Rerun ==
    /\ pc = "done"
    /\ run < MaxRuns
    /\ run' = run + 1
    /\ pc' = "start"
    /\ items' = {}
    /\ entry_state' = NoEntries
    /\ item' = NoName
    /\ move_count' = NoEntries
    /\ notices' = {}
    /\ summary' = << >>
    /\ run_start' = desktop
    /\ removed' = NoEntries
    /\ UNCHANGED << desktop_exists, desktop >>
    /\ UNCHANGED << classifier_vars, resolver_vars >>

\* Another process removes a regular file of the snapshot that the loop has
\* not finished with.  before_check tells whether the loop has still to
\* evaluate item.is_file() for it.
Remove(name) ==
    /\ pc \in {"loop", "relocate"}
    /\ Cardinality(DOMAIN removed) < MaxRemovals
    /\ name \in Pending
    /\ IsFile(desktop, name)
    /\ desktop' = Unlink(desktop, name)
    /\ removed' = removed @@ (name :> [before_check |-> (name # item),
                                       eligible |-> ~SkippedByFilter(desktop, name)])
    /\ UNCHANGED << desktop_exists, pc, items, entry_state, item, move_count,
                    notices, summary, run, run_start >>
    /\ UNCHANGED << classifier_vars, resolver_vars >>

OrganizerStep ==
    \/ Enumerate
    \/ \E name \in items : Filter(name)
    \/ RelocateMkdirRaises
    \/ RelocateMoved
    \/ RelocateMoveRaises
    \/ Summarize

Next ==
    \/ OrganizerStep
    \/ Rerun

Spec == Init /\ [][Next]_vars

NextWithRemoval ==
    \/ OrganizerStep
    \/ \E name \in items : Remove(name)

SpecWithRemoval == Init /\ [][NextWithRemoval]_vars


(***************************************************************************)
(* get_category on its own: every configured extension in lower case, in   *)
(* upper case and with its first letter in upper case, and extensions no   *)
(* category lists.                                                         *)
(***************************************************************************)
ConfiguredExtensions ==
    UNION { Range(FILE_CATEGORIES[k].extensions) : k \in DOMAIN FILE_CATEGORIES }

FirstLetterUpper(s) == [ i \in DOMAIN s |-> IF i = 2 THEN UpperChar(s[i]) ELSE s[i] ]

UnconfiguredExtensions ==
    { << >>, <<".">>, <<".","x","y","z">>, <<".","j","p","g","x">>,
      <<"j","p","g">>, <<".","j","p">>, <<".","P","D","F","S">>,
      <<".","_","1">> }

ExtensionInputs ==
    ConfiguredExtensions
        \cup { Upper(e) : e \in ConfiguredExtensions }
        \cup { FirstLetterUpper(e) : e \in ConfiguredExtensions }
        \cup UnconfiguredExtensions

InitClassifier ==
    /\ IdleOrganizer
    /\ IdleResolver
    /\ file_extension \in ExtensionInputs
    /\ classified = NoName

Classify ==
    /\ classified = NoName
    /\ classified' = get_category(file_extension)
    /\ UNCHANGED << file_extension, organizer_vars, resolver_vars >>

NextClassifier == Classify

SpecClassifier == InitClassifier /\ [][NextClassifier]_vars

(***************************************************************************)
(* get_unique_filename on its own: a proposed name against directories     *)
(* holding any of the name itself, its first MaxCollisions numbered        *)
(* variants and an unrelated name, or holding the name and a contiguous    *)
(* run of up to MaxContiguous numbered variants.                           *)
(***************************************************************************)
N_plain == <<"n">>
B_tar_gz == <<"b",".","t","a","r",".","g","z">>
A_dot == <<"a",".">>

ProposedNames == { A_jpg, A1_jpg, N_plain, B_tar_gz, A_dot, Hidden }

Variants(name, n) ==
    { NumberedName(Stem(name), k, Suffix(name)) : k \in 1..n }

InitResolver ==
    /\ IdleOrganizer
    /\ IdleClassifier
    /\ filename \in ProposedNames
    /\ \/ target_dir \in SUBSET ({filename, R_xyz} \cup Variants(filename, MaxCollisions))
       \/ \E n \in 0..MaxContiguous :
             target_dir = {filename} \cup Variants(filename, n)
    /\ resolved = NoName

Resolve ==
    /\ filename # NoName
    /\ resolved = NoName
    /\ resolved' = get_unique_filename(target_dir, filename)
    /\ UNCHANGED << target_dir, filename, organizer_vars, classifier_vars >>

NextResolver == Resolve

SpecResolver == InitResolver /\ [][NextResolver]_vars

(***************************************************************************)
(* C8: get_category is total and case-insensitive: an extension whose      *)
(* lower-case form is in the list of a category is classified as that      *)
(* category, any other extension (the empty one included) as Others, and   *)
(* the lower-case form is in the list of at most one category, so exactly  *)
(* one category matches.                                                   *)
(***************************************************************************)
CategoryNames == { FILE_CATEGORIES[k].category : k \in DOMAIN FILE_CATEGORIES }

ListingCategories(ext) ==
    { k \in DOMAIN FILE_CATEGORIES : Lower(ext) \in Range(FILE_CATEGORIES[k].extensions) }

ClassifierCorrect ==
    classified # NoName =>
        /\ classified \in CategoryNames
        /\ \A k \in ListingCategories(file_extension) :
              classified = FILE_CATEGORIES[k].category
        /\ ListingCategories(file_extension) = {} => classified = Others
        /\ Cardinality(ListingCategories(file_extension)) <= 1
        /\ \A k \in DOMAIN FILE_CATEGORIES :
              file_extension \in Range(FILE_CATEGORIES[k].extensions)
                  => /\ get_category(Upper(file_extension)) = classified
                     /\ get_category(FirstLetterUpper(file_extension)) = classified

\* .JPG has been classified as Images.
ClassifierWitness ==
    /\ file_extension = <<".","J","P","G">>
    /\ classified = Images

(***************************************************************************)
(* C4: get_unique_filename returns the proposed name unchanged when the    *)
(* target directory has no entry of that name; otherwise it returns        *)
(* stem(k)ext for the smallest k >= 1 for which the directory has no such  *)
(* entry.  The result is never the name of an entry of the directory, and  *)
(* with the proposed name and stem(1)ext .. stem(N-1)ext all present and   *)
(* stem(N)ext absent the result is stem(N)ext.                             *)
(***************************************************************************)
Candidate(k) == NumberedName(Stem(filename), k, Suffix(filename))

ResolverCorrect ==
    resolved # NoName =>
        /\ resolved \notin target_dir
        /\ filename \notin target_dir => resolved = filename
        /\ filename \in target_dir =>
              \E k \in 1..(Cardinality(target_dir) + 1) :
                  /\ resolved = Candidate(k)
                  /\ \A j \in 1..(k - 1) : Candidate(j) \in target_dir
        /\ \A n \in 1..(Cardinality(target_dir) + 1) :
              ( /\ filename \in target_dir
                /\ \A j \in 1..(n - 1) : Candidate(j) \in target_dir
                /\ Candidate(n) \notin target_dir )
                  => resolved = Candidate(n)

\* a.jpg with a(1).jpg .. a(9).jpg present has been resolved to a(10).jpg.
ResolverWitness ==
    /\ filename = A_jpg
    /\ Cardinality(target_dir) = 10
    /\ resolved = <<"a","(","1","0",")",".","j","p","g">>


(***************************************************************************)
(* Vocabulary of the properties of organize_desktop.                      *)
(***************************************************************************)
\* Regular files of the Desktop when the snapshot was taken.
SnapshotFiles == { n \in DOMAIN run_start : run_start[n].kind = "file" }

\* The entries the Filter step lets through: regular file, not in the
\* ignore set, no leading dot.
Eligible ==
    { n \in SnapshotFiles :
        /\ n \notin { DS_Store, Localized, DesktopIni }
        /\ Head(n) # "." }

Terminal == { "SUCCESS", "SKIPPED", "FAILED" }

Ended == pc \in { "done", "aborted" }

StateOf(n) == IF n \in DOMAIN entry_state THEN entry_state[n] ELSE "PENDING"

Tally(cat) == IF cat \in DOMAIN move_count THEN move_count[cat] ELSE 0

\* The paths (folder, name), folder NoName for the Desktop itself, at which
\* the file system holds the given content.
PlacesOf(fs, content) ==
    { << NoName, n >> : n \in { m \in DOMAIN fs : /\ fs[m].kind = "file"
                                                  /\ fs[m].content = content } }
    \cup UNION { { << d, n >> : n \in { m \in DOMAIN fs[d].children :
                                          fs[d].children[m] = content } } :
                 d \in { e \in DOMAIN fs : fs[e].kind = "dir" } }

\* Entry n of the snapshot now lies in the folder of its category.
InCategoryFolder(n) ==
    \E place \in PlacesOf(desktop, run_start[n].content) :
        place[1] = get_category(Suffix(n))

Succeeded == { n \in items : entry_state[n] = "SUCCESS" }
Failed == { n \in items : entry_state[n] = "FAILED" }

MovedNotices == { m \in notices : m.kind = "moved" }
ErrorNotices == { m \in notices : m.kind = "error" }

NothingToOrganize == << [kind |-> "nothing"] >>

(***************************************************************************)
(* C1: when the run has ended, an eligible entry whose move failed is      *)
(* still on the Desktop and not counted, every other eligible entry of the *)
(* snapshot has been moved into the folder of its category and counted,    *)
(* and with exactly one failed entry out of N eligible ones the total is   *)
(* N - 1.                                                                  *)
(***************************************************************************)
FailureIsolated ==
    (Ended /\ Failed # {}) =>
        /\ \A n \in Failed :
              /\ IsFile(desktop, n)
              /\ desktop[n] = run_start[n]
        /\ \A n \in Eligible \ Failed :
              /\ entry_state[n] = "SUCCESS"
              /\ InCategoryFolder(n)
        /\ SumValues(move_count, DOMAIN move_count)
              = Cardinality(Eligible) - Cardinality(Failed)

(***************************************************************************)
(* C2: with the Desktop present, every snapshot entry ends in exactly one  *)
(* of SUCCESS, SKIPPED, FAILED and the run reaches the SUMMARY block: the  *)
(* creation of the category folder never raises out of the run, and after  *)
(* it the category folder is a directory.                                  *)
(***************************************************************************)
EnsureDestinationNeverRaises ==
    /\ pc # "aborted"
    /\ pc = "done" => \A n \in items : entry_state[n] \in Terminal
    /\ \A n \in Succeeded \cup Failed : IsDir(desktop, get_category(Suffix(n)))

NoOverwrite ==
    /\ \A d \in DOMAIN run_start :
          run_start[d].kind = "dir" =>
              /\ IsDir(desktop, d)
              /\ \A n \in DOMAIN run_start[d].children :
                    /\ n \in DOMAIN desktop[d].children
                    /\ desktop[d].children[n] = run_start[d].children[n]
    /\ \A m \in MovedNotices :
          /\ IsDir(desktop, m.category)
          /\ m.unique_filename \in DOMAIN desktop[m.category].children
          /\ desktop[m.category].children[m.unique_filename]
                = run_start[m.name].content
          /\ ( \/ ( /\ IsDir(run_start, m.category)
                    /\ m.name \in DOMAIN run_start[m.category].children )
               \/ \E other \in MovedNotices :
                     /\ other.name # m.name
                     /\ other.category = m.category
                     /\ other.unique_filename = m.name )
                => \E k \in 1..(Cardinality(DOMAIN desktop[m.category].children)) :
                      m.unique_filename
                          = NumberedName(Stem(m.name), k, Suffix(m.name))

\* a.jpg met Images/a.jpg and became a(1).jpg; a(1).jpg then met that file
\* and became a(1)(1).jpg.
NoOverwriteWitness ==
    /\ pc = "done"
    /\ run = 1
    /\ << Images, A_jpg >> \in PlacesOf(desktop, ContentOf(Images, A_jpg))
    /\ << Images, A1_jpg >> \in PlacesOf(desktop, ContentOf(NoName, A_jpg))
    /\ << Images, <<"a","(","1",")","(","1",")",".","j","p","g">> >>
          \in PlacesOf(desktop, ContentOf(NoName, A1_jpg))

(***************************************************************************)
(* C6: a snapshot entry that is not a regular file, or is named in the     *)
(* ignore set, or has a leading dot keeps its place and its content, is    *)
(* named by no notice and counted nowhere, and no folder is created on its *)
(* behalf: each folder that appeared during the run is the category folder *)
(* of an eligible entry the loop has taken up.                             *)
(***************************************************************************)
SkippedUntouched ==
    /\ \A n \in items \ Eligible :
          /\ entry_state[n] \in { "PENDING", "SKIPPED" }
          /\ n \in DOMAIN desktop
          /\ desktop[n].kind = run_start[n].kind
          /\ desktop[n].content = run_start[n].content
          /\ \A m \in notices : m.name # n
          /\ run_start[n].kind = "file" =>
                PlacesOf(desktop, run_start[n].content) = { << NoName, n >> }
    /\ \A d \in DOMAIN desktop \ DOMAIN run_start :
          \E n \in Eligible :
              /\ d = get_category(Suffix(n))
              /\ (StateOf(n) \in { "SUCCESS", "FAILED" } \/ item = n)
    /\ SumValues(move_count, DOMAIN move_count)
          = Cardinality({ n \in Eligible : StateOf(n) = "SUCCESS" })

\* A run has ended with desktop.ini, .h and a folder skipped and r.xyz
\* moved.
SkippedWitness ==
    /\ pc = "done"
    /\ run = 1
    /\ { DesktopIni, Hidden, Stuff } \subseteq items
    /\ \A n \in { DesktopIni, Hidden, Stuff } : entry_state[n] = "SKIPPED"
    /\ R_xyz \in Succeeded

(***************************************************************************)
(* C7: at every point of a run the count of a category is the number of    *)
(* snapshot entries moved into its folder so far.  The SUMMARY block is    *)
(* the nothing-to-organize line if and only if no move succeeded;          *)
(* otherwise it lists exactly the categories with a successful move, in    *)
(* ascending order of their names, each with its count, and then the total *)
(* number of successful moves.                                             *)
(***************************************************************************)
TallyAndSummary ==
    /\ DOMAIN move_count \subseteq CategoryNames
    /\ \A cat \in CategoryNames :
          Tally(cat) = Cardinality({ n \in Succeeded :
                                       /\ get_category(Suffix(n)) = cat
                                       /\ InCategoryFolder(n) })
    /\ \A n \in Succeeded : InCategoryFolder(n)
    /\ pc = "done" =>
          /\ (summary = NothingToOrganize) <=> (Succeeded = {})
          /\ Succeeded # {} =>
                /\ Len(summary) >= 2
                /\ summary[Len(summary)]
                      = [kind |-> "total", count |-> Cardinality(Succeeded)]
                /\ \A i \in 1..(Len(summary) - 1) :
                      /\ summary[i].kind = "count"
                      /\ summary[i].count = Tally(summary[i].category)
                      /\ summary[i].count >= 1
                      /\ summary[i].plural = (summary[i].count # 1)
                /\ { summary[i].category : i \in 1..(Len(summary) - 1) }
                      = { get_category(Suffix(n)) : n \in Succeeded }
                /\ \A i \in 1..(Len(summary) - 1), j \in 1..(Len(summary) - 1) :
                      i < j => StrLess(summary[i].category, summary[j].category)

\* Two images and one unclassified file moved: Images: 2 files, Others: 1
\* file, total 3.
TallyWitness ==
    /\ pc = "done"
    /\ summary = << [kind |-> "count", category |-> Images, count |-> 2,
                     plural |-> TRUE],
                    [kind |-> "count", category |-> Others, count |-> 1,
                     plural |-> FALSE],
                    [kind |-> "total", count |-> 3] >>

=============================================================================
